---------------------------- MODULE Spec2Model ----------------------------
(***************************************************************************)
(* wav2msu.js: the WAVE <-> raw PCM <-> MSU-1 codec of src/docs/index.js.  *)
(*                                                                         *)
(* A byte buffer (ArrayBuffer) is a sequence of 0..255; byte offset k of   *)
(* the code is index k+1 here.  A string is the sequence of its char codes *)
(* (getString yields one char per byte).  A Uint16Array is the sequence of *)
(* its element values.  A thrown error is a result whose kind names the    *)
(* class of the error: "WavError", "MsuError", or "RangeError" (what       *)
(* DataView accessors and typed-array constructors throw out of range).    *)
(*                                                                         *)
(* TLC's integers are 32-bit signed, so the inputs keep every uint32 field *)
(* below 2^31; the code's own arithmetic is on doubles and never wraps.    *)
(***************************************************************************)
EXTENDS Integers, Sequences, FiniteSets

\* ------------------------------------------------------------- bounds ----
\* longest drawn sample sequence (pcm, intro, and the data of a drawn file)
MaxLen == 3
\* largest drawn explicit loop point
MaxLoop == 3
\* most chunks in a drawn WAVE file
MaxChunks == 2

\* ---------------------------------------------------------- characters ---
RIFF == <<82, 73, 70, 70>>
WAVE == <<87, 65, 86, 69>>
MSU1 == <<77, 83, 85, 49>>
FMT_ == <<102, 109, 116, 32>>      \* 'fmt ' as rawPcmToWav writes it
FMT  == <<102, 109, 116>>          \* "fmt", the key wavBufferToRawPcm looks up
DATA == <<100, 97, 116, 97>>       \* 'data'

\* ------------------------------------------------ DataView / typed arrays
\* Typed arrays read and write in the platform's byte order; every engine
\* the library's browser demo runs on is little-endian.
HostLittleEndian == TRUE

\* DataView.prototype.setUint16(ofs, v, true) / setUint16(ofs, v): the bytes
\* written; without the littleEndian argument DataView writes big-endian.
setUint16LE(v) == << v % 256, (v \div 256) % 256 >>
setUint16BE(v) == << (v \div 256) % 256, v % 256 >>

\* DataView.prototype.setUint32(ofs, v, true)
setUint32LE(v) ==
  << v % 256, (v \div 256) % 256, (v \div 65536) % 256, (v \div 16777216) % 256 >>

\* DataView.prototype.getUint16(ofs, true) / getUint32(ofs, true) on the
\* bytes of b from byte offset ofs (callers check the range first)
getUint16(b, ofs) == b[ofs + 1] + 256 * b[ofs + 2]
getUint32(b, ofs) ==
  b[ofs + 1] + 256 * b[ofs + 2] + 65536 * b[ofs + 3] + 16777216 * b[ofs + 4]

\* a DataView read of n bytes at ofs throws RangeError when it leaves the view
OutOfRange(byteLength, ofs, n) == ofs + n > byteLength

\* the bytes b[ofs .. ofs+n-1] (byte offsets), for reads that are in range
Slice(b, ofs, n) == [i \in 1..n |-> b[ofs + i]]

\* src/docs/index.js:10-16
getString(b, ofs, n) == Slice(b, ofs, n)

\* element i (0-based) of new Uint16Array(buffer, byteOffset, n): platform order
Uint16At(b, byteOffset, i) ==
  IF HostLittleEndian
    THEN b[byteOffset + 2 * i + 1] + 256 * b[byteOffset + 2 * i + 2]
    ELSE 256 * b[byteOffset + 2 * i + 1] + b[byteOffset + 2 * i + 2]

\* the elements of new Uint16Array(buffer, byteOffset, n), once constructed
Uint16Array(b, byteOffset, n) == [i \in 1..n |-> Uint16At(b, byteOffset, i - 1)]

\* ToIndex(m / 2) of the typed-array constructor's length argument: the
\* quotient truncated toward zero (a negative result is a RangeError)
TruncHalf(m) == IF m >= 0 THEN m \div 2 ELSE -((-m) \div 2)

\* new Uint16Array(buffer, byteOffset, length) throws RangeError when the
\* offset is odd, the length negative, or the view leaves the buffer
Uint16ArrayThrows(byteLength, byteOffset, length) ==
  \/ byteOffset % 2 # 0
  \/ length < 0
  \/ byteOffset + 2 * length > byteLength

RECURSIVE Flatten(_)
\* the concatenation of a sequence of byte sequences
Flatten(ss) == IF ss = <<>> THEN <<>> ELSE Head(ss) \o Flatten(Tail(ss))

\* ------------------------------------------------------------ results ----
\* What a call produced.  kind is "ok" for a returned value and the error's
\* class for a throw; hasIntro / hasLoopPoint say whether the returned object
\* has that property; pcm is the Uint16Array wavBufferToRawPcm returns.
Result(kind, hasIntro, intro, loop, hasLoopPoint, loopPoint) ==
  [kind |-> kind, hasIntro |-> hasIntro, intro |-> intro, loop |-> loop,
   hasLoopPoint |-> hasLoopPoint, loopPoint |-> loopPoint, pcm |-> <<>>]

Throw(kind) == Result(kind, FALSE, <<>>, <<>>, FALSE, 0)
NoResult == Throw("none")

\* --------------------------------------------------------- rawPcmToMsu ---
\* the intro samples, written by view.setUint16(8 + i * 2, intro[i])
IntroBytes(intro) == Flatten([i \in 1..Len(intro) |-> setUint16BE(intro[i])])

\* mutant: the pcm loop without the littleEndian argument, like the intro's
PcmBytesBigEndian(pcm) == Flatten([i \in 1..Len(pcm) |-> setUint16BE(pcm[i])])

\* the pcm samples, written by view.setUint16(ofs, pcm[i], true)
PcmBytes(pcm) == Flatten([i \in 1..Len(pcm) |-> setUint16LE(pcm[i])])

\* mutant: an explicit loop option wins over the intro
EffectiveLoopExplicitFirst(hasIntro, intro, loop) ==
  IF loop # 0 \/ ~hasIntro THEN loop ELSE Len(intro) \div 2

\* the loop point stored: intro.length / 2 when an intro is given (setUint32
\* truncates the half of an odd length), else the loop option
EffectiveLoop(hasIntro, intro, loop) ==
  IF hasIntro THEN Len(intro) \div 2 ELSE loop

rawPcmToMsu(pcm, hasIntro, intro, loop) ==
  MSU1 \o setUint32LE(EffectiveLoop(hasIntro, intro, loop))
       \o (IF hasIntro THEN IntroBytes(intro) ELSE <<>>)
       \o PcmBytes(pcm)

\* --------------------------------------------------------- msuToRawPcm ---
\* the check of line 144: loopPoint > (byteLength - 8) / 2
LoopPointTooLarge(loopPoint, byteLength) == 2 * loopPoint > byteLength - 8

\* the value returned at lines 148-151
PackedResult(b, loopPoint) ==
  Result("ok", FALSE, <<>>,
         Uint16Array(b, 8, TruncHalf(Len(b) - 8)), TRUE, loopPoint)

\* the intro of line 154: new Uint16Array(msuBuffer, 8, loopPoint)
SplitIntro(b, loopPoint) == Uint16Array(b, 8, loopPoint)

\* the value returned at lines 153-156, or the RangeError of its constructors
SplitResult(b, loopPoint) ==
  LET loopLen == TruncHalf(Len(b) - 8 - 4 * loopPoint)
  IN  IF \/ Uint16ArrayThrows(Len(b), 8, loopPoint)
         \/ Uint16ArrayThrows(Len(b), 8 + 4 * loopPoint, loopLen)
        THEN Throw("RangeError")
        ELSE Result("ok", TRUE, SplitIntro(b, loopPoint),
                    Uint16Array(b, 8 + 4 * loopPoint, loopLen), FALSE, 0)

msuToRawPcm(b, packLoop) ==
  IF OutOfRange(Len(b), 0, 4) THEN Throw("RangeError")
  ELSE IF getString(b, 0, 4) # MSU1 THEN Throw("MsuError")
  ELSE IF OutOfRange(Len(b), 4, 4) THEN Throw("RangeError")
  ELSE LET loopPoint == getUint32(b, 4)
       IN  IF LoopPointTooLarge(loopPoint, Len(b)) THEN Throw("MsuError")
           ELSE IF loopPoint = 0 \/ packLoop THEN PackedResult(b, loopPoint)
           ELSE SplitResult(b, loopPoint)

\* --------------------------------------------------------- rawPcmToWav ---
\* the 16 bytes of a fmt chunk body (the layout parseFMT reads, lines 66-71)
FmtBody(formatTag, channels, samplesPerSec, avgBytesPerSec, blockAlign, bitsPerSample) ==
  setUint16LE(formatTag) \o setUint16LE(channels) \o setUint32LE(samplesPerSec)
    \o setUint32LE(avgBytesPerSec) \o setUint16LE(blockAlign)
    \o setUint16LE(bitsPerSample)

\* mutant: the data chunk's length field holds the sample count
rawPcmToWavSampleCount(pcm) ==
  RIFF \o setUint32LE(36 + 2 * Len(pcm)) \o WAVE
    \o FMT_ \o setUint32LE(16)
    \o setUint16LE(1) \o setUint16LE(2) \o setUint32LE(44100)
    \o setUint32LE(176400) \o setUint16LE(4) \o setUint16LE(16)
    \o DATA \o setUint32LE(Len(pcm))
    \o Flatten([i \in 1..Len(pcm) |-> setUint16LE(pcm[i])])

rawPcmToWav(pcm) ==
  LET byteLength == 2 * Len(pcm)
      size == 44 + byteLength
  IN  RIFF \o setUint32LE(size - 8) \o WAVE
        \o FMT_ \o setUint32LE(16)
        \o FmtBody(1, 2, 44100, (44100 * 16 * 2) \div 8, 4, 16)
        \o DATA \o setUint32LE(byteLength)
        \o PcmBytes(pcm)

\* -------------------------------------------------------- parseWavFile ---
\* what String.prototype.trim strips, among the chars a byte can give
WhiteSpace == {9, 10, 11, 12, 13, 32, 160}

RECURSIVE TrimStart(_)
TrimStart(s) ==
  IF s # <<>> /\ Head(s) \in WhiteSpace THEN TrimStart(Tail(s)) ELSE s

RECURSIVE TrimEnd(_)
TrimEnd(s) ==
  IF s # <<>> /\ s[Len(s)] \in WhiteSpace
    THEN TrimEnd(SubSeq(s, 1, Len(s) - 1)) ELSE s

\* getString(view, pos, 4).trim().replace(/\0/g, '')
ChunkName(b, pos) ==
  SelectSeq(TrimEnd(TrimStart(getString(b, pos, 4))), LAMBDA c : c # 0)

\* the checks of lines 39-46, which end the call, or "walk" to go on
HeaderCheck(b) ==
  IF OutOfRange(Len(b), 0, 4) \/ OutOfRange(Len(b), 8, 4) THEN "RangeError"
  ELSE IF getString(b, 0, 4) \o <<47>> \o getString(b, 8, 4)
            # RIFF \o <<47>> \o WAVE THEN "WavError"
  ELSE IF getUint32(b, 4) + 8 # Len(b) THEN "WavError"
  ELSE "walk"

\* mutant: only the start of the view is checked against the buffer
DataViewThrowsStartOnly(byteLength, byteOffset, length) ==
  byteOffset > byteLength

\* new DataView(wavBuffer, pos + 8, length) throws RangeError when the view
\* starts or ends beyond the buffer
DataViewThrows(byteLength, byteOffset, length) ==
  byteOffset > byteLength \/ byteOffset + length > byteLength

\* one iteration of the loop of lines 50-55 throws
IterationThrows(b, p) ==
  \/ OutOfRange(Len(b), p, 4)
  \/ OutOfRange(Len(b), p + 4, 4)
  \/ DataViewThrows(Len(b), p + 8, getUint32(b, p + 4))

\* chunks[chunkName] = view: a later chunk of the same name replaces an earlier
PutChunk(cs, name, byteOffset, byteLength) ==
  {c \in cs : c.name # name}
    \cup {[name |-> name, byteOffset |-> byteOffset, byteLength |-> byteLength]}

\* pos += length + 8
NextPos(p, length) == p + length + 8

Has(cs, name) == \E c \in cs : c.name = name
Get(cs, name) == CHOOSE c \in cs : c.name = name

\* ---------------------------------------------------- wavBufferToRawPcm --
\* parseFMT (lines 64-73) on the chunk's view; its reads throw RangeError
\* when the view is shorter than the 16 bytes they cover
parseFMTThrows(view) == OutOfRange(view.byteLength, 14, 2)

parseFMT(b, view) ==
  [formatTag      |-> getUint16(b, view.byteOffset),
   channels       |-> getUint16(b, view.byteOffset + 2),
   samplesPerSec  |-> getUint32(b, view.byteOffset + 4),
   avgBytesPerSec |-> getUint32(b, view.byteOffset + 8),
   blockAlign     |-> getUint16(b, view.byteOffset + 12),
   bitsPerSample  |-> getUint16(b, view.byteOffset + 14)]

\* the four checks of lines 86-89
FmtSupported(fmt) ==
  /\ fmt.formatTag = 1
  /\ fmt.channels = 2
  /\ fmt.samplesPerSec = 44100
  /\ fmt.bitsPerSample = 16

\* new Uint16Array(wavBuffer, data.byteOffset, data.byteLength * 8 / 16)
DataResult(b, data) ==
  LET n == TruncHalf(data.byteLength)
  IN  IF Uint16ArrayThrows(Len(b), data.byteOffset, n) THEN Throw("RangeError")
      ELSE [Result("ok", FALSE, <<>>, <<>>, FALSE, 0)
              EXCEPT !.pcm = Uint16Array(b, data.byteOffset, n)]

\* lines 82-92, on the chunk map parseWavFile returned
wavBufferToRawPcmTail(b, cs) ==
  IF ~Has(cs, FMT) THEN Throw("WavError")
  ELSE IF parseFMTThrows(Get(cs, FMT)) THEN Throw("RangeError")
  ELSE IF ~FmtSupported(parseFMT(b, Get(cs, FMT))) THEN Throw("WavError")
  ELSE IF ~Has(cs, DATA) THEN Throw("WavError")
  ELSE DataResult(b, Get(cs, DATA))

\* ------------------------------------------------------------- inputs ----
\* sample values whose two bytes differ, so that a byte swap shows
Samples == {1, 258, 65535}

BoundedSeq(S, n) == UNION {[1..k -> S] : k \in 0..n}

\* the pcm / intro arguments drawn; the second set is the README's scenario
PcmInputs == BoundedSeq(Samples, MaxLen) \cup {<<10, 20, 30, 40>>}
Loops == 0..MaxLoop

\* MSU-1 files a caller may hand to msuToRawPcm: either magic, loop points up
\* to and beyond the data (1000000 is the loop point of a 16-byte file that
\* the format's description rejects), whole and odd byte counts, and files
\* cut short inside the header
MSU0 == <<77, 83, 85, 48>>
ShortMsuLens == {0, 3, 4, 7}
MsuFiles ==
  {m \o setUint32LE(lp) \o PcmBytes(d) \o t :
      m \in {MSU1, MSU0}, lp \in Loops \cup {1000000},
      d \in BoundedSeq(Samples, MaxLen + 1), t \in {<<>>, <<7>>}}
  \cup {SubSeq(MSU1 \o setUint32LE(0), 1, k) : k \in ShortMsuLens}

\* WAVE files a caller may hand to wavBufferToRawPcm
Chunk(name, declared, body) == name \o setUint32LE(declared) \o body
GoodFmt == FmtBody(1, 2, 44100, 176400, 4, 16)
MonoFmt == FmtBody(1, 1, 44100, 88200, 2, 16)
LIST == <<76, 73, 83, 84>>
FmtChunks ==
  {Chunk(FMT_, 16, f) :
     f \in {GoodFmt, MonoFmt, FmtBody(3, 2, 44100, 176400, 4, 16),
            FmtBody(1, 2, 48000, 192000, 4, 16),
            FmtBody(1, 2, 44100, 88200, 2, 8)}}
  \cup {Chunk(FMT_, n, SubSeq(MonoFmt, 1, n)) : n \in {0, 14}}
  \cup {Chunk(FMT_, 18, GoodFmt \o <<0, 0>>),
        Chunk(<<102, 109, 116, 0>>, 16, MonoFmt)}
DataChunks ==
  {Chunk(DATA, 2 * Len(d), PcmBytes(d)) : d \in {<<>>, <<258>>, <<1, 258>>}}
  \cup {Chunk(DATA, 4, PcmBytes(<<258>>)), Chunk(DATA, 3, <<1, 2, 3>>)}
OtherChunks == {Chunk(LIST, 0, <<>>), Chunk(LIST, 1, <<9>>), DATA}
ChunkPool == FmtChunks \cup DataChunks \cup OtherChunks

RIFX == <<82, 73, 70, 88>>
WAVX == <<87, 65, 86, 88>>
\* the two magics and the error of the recorded size
Headers ==
  {<<RIFF, WAVE, 0>>, <<RIFX, WAVE, 0>>, <<RIFF, WAVX, 0>>, <<RIFF, WAVE, 1>>}
ShortWavLens == {0, 3, 4, 8, 11}
WavFiles ==
  {h[1] \o setUint32LE(4 + Len(Flatten(cs)) + h[3]) \o h[2] \o Flatten(cs) :
      h \in Headers, cs \in BoundedSeq(ChunkPool, MaxChunks)}
  \cup {SubSeq(rawPcmToWav(<<>>), 1, k) : k \in ShortWavLens}

\* -------------------------------------------------------------- state ----
VARIABLES
  pc,        \* "idle", "msu" / "wav" (a buffer of that kind is in hand),
             \* "walk" (inside parseWavFile's loop), "done"
  src,       \* what made buf: "rawPcmToMsu", "rawPcmToWav", "msuFile", "wavFile"
  args,      \* the arguments of the call that made buf
  buf,       \* the ArrayBuffer in hand
  packLoop,  \* the packLoop option of the msuToRawPcm call
  pos,       \* parseWavFile's pos
  chunks,    \* parseWavFile's chunks
  trail,     \* history: <<pos, length>> of every chunk the loop has visited
  result     \* what the decoding call returned or threw

vars == <<pc, src, args, buf, packLoop, pos, chunks, trail, result>>

Args(pcm, hasIntro, intro, loop) ==
  [pcm |-> pcm, hasIntro |-> hasIntro, intro |-> intro, loop |-> loop]

Init ==
  /\ pc = "idle"
  /\ src = "none"
  /\ args = Args(<<>>, FALSE, <<>>, 0)
  /\ buf = <<>>
  /\ packLoop = FALSE
  /\ pos = 0
  /\ chunks = {}
  /\ trail = <<>>
  /\ result = NoResult

\* a caller encodes pcm, with or without an intro and a loop option
CallRawPcmToMsu ==
  /\ pc = "idle"
  /\ \E p \in PcmInputs, hi \in BOOLEAN, i \in PcmInputs, l \in Loops :
       /\ hi \/ i = <<>>
       /\ buf' = rawPcmToMsu(p, hi, i, l)
       /\ args' = Args(p, hi, i, l)
  /\ pc' = "msu"
  /\ src' = "rawPcmToMsu"
  /\ UNCHANGED <<packLoop, pos, chunks, trail, result>>

\* a caller reads an MSU-1 file (part_000:17)
ReadMsuFile ==
  /\ pc = "idle"
  /\ \E f \in MsuFiles : buf' = f
  /\ pc' = "msu"
  /\ src' = "msuFile"
  /\ UNCHANGED <<args, packLoop, pos, chunks, trail, result>>

CallMsuToRawPcm ==
  /\ pc = "msu"
  /\ \E pk \in BOOLEAN :
       /\ packLoop' = pk
       /\ result' = msuToRawPcm(buf, pk)
  /\ pc' = "done"
  /\ UNCHANGED <<src, args, buf, pos, chunks, trail>>

CallRawPcmToWav ==
  /\ pc = "idle"
  /\ \E p \in PcmInputs :
       /\ buf' = rawPcmToWav(p)
       /\ args' = Args(p, FALSE, <<>>, 0)
  /\ pc' = "wav"
  /\ src' = "rawPcmToWav"
  /\ UNCHANGED <<packLoop, pos, chunks, trail, result>>

\* a caller reads a WAVE file (part_000:10)
ReadWavFile ==
  /\ pc = "idle"
  /\ \E f \in WavFiles : buf' = f
  /\ pc' = "wav"
  /\ src' = "wavFile"
  /\ UNCHANGED <<args, packLoop, pos, chunks, trail, result>>

\* wavBufferToRawPcm enters parseWavFile: lines 37-49
parseWavFileEnter ==
  /\ pc = "wav"
  /\ IF HeaderCheck(buf) = "walk"
       THEN /\ pc' = "walk"
            /\ pos' = 12
            /\ result' = result
       ELSE /\ pc' = "done"
            /\ pos' = pos
            /\ result' = Throw(HeaderCheck(buf))
  /\ UNCHANGED <<src, args, buf, packLoop, chunks, trail>>

\* one iteration of parseWavFile's loop: lines 50-55
parseWavFileIterate ==
  /\ pc = "walk"
  /\ pos < Len(buf)
  /\ IF IterationThrows(buf, pos)
       THEN /\ pc' = "done"
            /\ result' = Throw("RangeError")
            /\ UNCHANGED <<pos, chunks, trail>>
       ELSE LET length == getUint32(buf, pos + 4)
            IN  /\ chunks' = PutChunk(chunks, ChunkName(buf, pos), pos + 8, length)
                /\ pos' = NextPos(pos, length)
                /\ trail' = Append(trail, <<pos, length>>)
                /\ UNCHANGED <<pc, result>>
  /\ UNCHANGED <<src, args, buf, packLoop>>

\* parseWavFile returns chunks; wavBufferToRawPcm goes on: lines 56, 82-92
wavBufferToRawPcmReturn ==
  /\ pc = "walk"
  /\ pos >= Len(buf)
  /\ result' = wavBufferToRawPcmTail(buf, chunks)
  /\ pc' = "done"
  /\ UNCHANGED <<src, args, buf, packLoop, pos, chunks, trail>>

Next ==
  \/ CallRawPcmToMsu
  \/ ReadMsuFile
  \/ CallMsuToRawPcm
  \/ CallRawPcmToWav
  \/ ReadWavFile
  \/ parseWavFileEnter
  \/ parseWavFileIterate
  \/ wavBufferToRawPcmReturn

Spec == Init /\ [][Next]_vars

\* ======================================================== properties =====
\* msuToRawPcm / wavBufferToRawPcm has returned or thrown
MsuDone == pc = "done" /\ src \in {"rawPcmToMsu", "msuFile"}
WavDone == pc = "done" /\ src \in {"rawPcmToWav", "wavFile"}
\* the loop point an MSU-1 buffer of at least 8 bytes stores
StoredLoopPoint == getUint32(buf, 4)

\* C1: with an intro of non-zero even length and a loop, msuToRawPcm without
\* packLoop on rawPcmToMsu(loop, {intro}) returns the intro, the loop, and
\* loopPoint = intro.length / 2.
SplitThenJoin ==
  (/\ MsuDone /\ src = "rawPcmToMsu" /\ ~packLoop
   /\ args.hasIntro /\ args.intro # <<>> /\ Len(args.intro) % 2 = 0)
  => /\ result.kind = "ok"
     /\ result.hasIntro /\ result.intro = args.intro
     /\ result.loop = args.pcm
     /\ result.hasLoopPoint /\ 2 * result.loopPoint = Len(args.intro)

\* C2: for 0 <= n <= p.length / 2, msuToRawPcm with packLoop on
\* rawPcmToMsu(p, {loop: n}) throws nothing and returns loop = p, loopPoint = n.
MsuRoundTrip ==
  (/\ MsuDone /\ src = "rawPcmToMsu" /\ packLoop
   /\ ~args.hasIntro /\ 2 * args.loop <= Len(args.pcm))
  => /\ result.kind = "ok"
     /\ result.loop = args.pcm
     /\ result.hasLoopPoint /\ result.loopPoint = args.loop

MsuRoundTripWitness ==
  /\ MsuDone /\ src = "rawPcmToMsu" /\ packLoop /\ ~args.hasIntro
  /\ args.loop = 1 /\ args.pcm = <<258, 1>>
  /\ result.kind = "ok"

\* C3: rawPcmToWav(p) has 44 + p.byteLength bytes, wavBufferToRawPcm accepts
\* it, and returns a sequence equal to p; the empty p included.
WavRoundTrip ==
  (src = "rawPcmToWav")
  => /\ Len(buf) = 44 + 2 * Len(args.pcm)
     /\ pc = "done" => result.kind = "ok" /\ result.pcm = args.pcm

WavRoundTripWitness ==
  /\ WavDone /\ src = "rawPcmToWav"
  /\ args.pcm = <<1, 258, 258>> /\ result.kind = "ok" /\ Len(result.pcm) = 3

\* C4: a buffer with the magic "MSU1" whose loop point is beyond its frame
\* count (loopPoint * 2 > (byteLength - 8) / 2) fails with an MsuError.
LoopPointBeyondFramesRejected ==
  (/\ MsuDone /\ Len(buf) >= 8 /\ getString(buf, 0, 4) = MSU1
   /\ 4 * StoredLoopPoint > Len(buf) - 8)
  => result.kind = "MsuError"

\* what C5 takes for a bad header: bytes 0-3 not "RIFF", bytes 8-11 not
\* "WAVE" (missing bytes are not those), or size field + 8 # length
BadHeader(b) ==
  \/ Len(b) < 4 \/ getString(b, 0, 4) # RIFF
  \/ Len(b) < 12 \/ getString(b, 8, 4) # WAVE
  \/ getUint32(b, 4) + 8 # Len(b)

\* C5: a buffer of any length with a bad header fails with a WavError.
BadHeaderIsWavError ==
  (WavDone /\ BadHeader(buf)) => result.kind = "WavError"

\* the fmt chunk of the returned chunk map describes the supported profile
FmtChunkSupported ==
  /\ Get(chunks, FMT).byteLength >= 16
  /\ FmtSupported(parseFMT(buf, Get(chunks, FMT)))

\* parseWavFile returned its chunk map (it threw neither in the header checks
\* nor in the loop)
WalkReturned == pc = "done" /\ pos >= 12 /\ pos >= Len(buf)

\* C6: when the chunk map has a "fmt" chunk, a sample sequence is returned
\* only if it decodes to (1, 2, 44100, 16), and any other fmt chunk, a body
\* shorter than 16 bytes included, fails with a WavError.
BadFmtIsWavError ==
  (WavDone /\ WalkReturned /\ Has(chunks, FMT))
  => /\ result.kind = "ok" => FmtChunkSupported
     /\ ~FmtChunkSupported => result.kind = "WavError"

\* C7: every result msuToRawPcm returns has loopPoint, the uint32 at offset 4.
ResultHasLoopPoint ==
  (MsuDone /\ result.kind = "ok")
  => result.hasLoopPoint /\ result.loopPoint = StoredLoopPoint

\* C8: rawPcmToMsu's output has 8 + intro bytes + pcm bytes, starts "MSU1",
\* stores at 4-7 the loop point (half the intro's length when an intro is
\* given, whatever the loop option; the loop option otherwise), and without
\* an intro holds the pcm little-endian from offset 8; the README scenario
\* gives exactly its bytes.
MsuLayout ==
  (src = "rawPcmToMsu")
  => /\ Len(buf) = 8 + (IF args.hasIntro THEN 2 * Len(args.intro) ELSE 0)
                     + 2 * Len(args.pcm)
     /\ SubSeq(buf, 1, 4) = <<77, 83, 85, 49>>
     /\ buf[5] + 256 * buf[6] + 65536 * buf[7] + 16777216 * buf[8]
          = IF args.hasIntro THEN Len(args.intro) \div 2 ELSE args.loop
     /\ ~args.hasIntro =>
          \A i \in 1..Len(args.pcm) :
            /\ buf[8 + 2 * i - 1] = args.pcm[i] % 256
            /\ buf[8 + 2 * i] = args.pcm[i] \div 256
     /\ args = Args(<<10, 20, 30, 40>>, FALSE, <<>>, 1) =>
          buf = <<77, 83, 85, 49, 1, 0, 0, 0, 10, 0, 20, 0, 30, 0, 40, 0>>

MsuLayoutWitness ==
  /\ src = "rawPcmToMsu" /\ args.hasIntro /\ Len(args.intro) = 2
  /\ args.loop = 3 /\ StoredLoopPoint = 1

\* C9: a split result's intro is the first loopPoint * 2 samples after the
\* header and its loop the rest from byte 8 + loopPoint * 4: together all
\* (byteLength - 8) / 2 samples.
SplitPartitions ==
  (MsuDone /\ result.kind = "ok" /\ ~packLoop /\ StoredLoopPoint # 0)
  => /\ result.hasIntro
     /\ result.intro = Uint16Array(buf, 8, 2 * StoredLoopPoint)
     /\ result.loop = Uint16Array(buf, 8 + 4 * StoredLoopPoint,
                                  (Len(buf) - 8 - 4 * StoredLoopPoint) \div 2)
     /\ Len(result.intro) + Len(result.loop) = (Len(buf) - 8) \div 2

\* C10: in parseWavFile's loop the chunks visited start at 12, each header
\* and body lies inside the buffer, each starts where the one before ends
\* (so pos grows by at least 8 an iteration and the iterations are at most
\* (byteLength - 12) / 8), pos never passes the end, and when the chunk map
\* is returned pos is the buffer's length.
ChunkTiling ==
  (pc \in {"walk", "done"} /\ src \in {"rawPcmToWav", "wavFile"})
  => /\ \A i \in 1..Len(trail) :
          /\ trail[i][2] >= 0
          /\ trail[i][1] + 8 + trail[i][2] <= Len(buf)
          /\ trail[i][1] = IF i = 1 THEN 12
                           ELSE trail[i - 1][1] + 8 + trail[i - 1][2]
          /\ i > 1 => trail[i][1] >= trail[i - 1][1] + 8
     /\ pc = "walk" =>
          /\ pos = IF trail = <<>> THEN 12
                   ELSE trail[Len(trail)][1] + 8 + trail[Len(trail)][2]
          /\ 12 + 8 * Len(trail) <= pos
          /\ pos <= Len(buf)
     /\ WalkReturned => pos = Len(buf)

ChunkTilingWitness ==
  /\ WalkReturned /\ Len(trail) = 2
  /\ trail[1][2] = 0 /\ trail[2][2] > 0

=============================================================================
